---- MODULE Spec2Model ----
(***************************************************************************)
(* Model of dev/scripts/update-stars.js: the star-count synchronisation    *)
(* script.  One run reads every projects/<slug>/project.json, asks the     *)
(* hosting service for the star counts in batches of BATCH_SIZE and        *)
(* rewrites the files whose count changed.                                 *)
(***************************************************************************)
EXTENDS Integers, Sequences, FiniteSets, TLC

\* ------------------------------------------------------------------ bounds
\* Largest star count stored in a file or held by the service.
MaxStars == 1
\* The directory holds 0, BATCH_SIZE-1 or k*BATCH_SIZE ordinary projects,
\* k up to MaxFillBatches, plus at most one project of arbitrary content.
MaxFillBatches == 1
\* Environment faults (failed query, response without data, throwing write)
\* injected into one execution.
MaxFaults == 1

\* --------------------------------------------------------------- constants
BATCH_SIZE == 50

\* ------------------------------------------------------------- JS values
\* A JavaScript value: undefined, a number, or a string (a token sequence).
Undef == [t |-> "undefined", n |-> 0, s |-> <<>>]
Num(n) == [t |-> "number", n |-> n, s |-> <<>>]
Str(s) == [t |-> "string", n |-> 0, s |-> s]
\* The service's answer for an alias without data (JSON null).
Null == [t |-> "null", n |-> 0, s |-> <<>>]

\* A field of a JSON object, in insertion order.
Field(k, v) == [k |-> k, v |-> v]

\* ------------------------------------------------------ repository URLs
\* A URL string is a sequence of tokens: HOST stands for the literal
\* substring "https://github.com/", GITLAB for "https://gitlab.com/", "/"
\* for one slash, anything else for a non-empty run of non-slash characters.
HOST == "https://github.com/"
GITLAB == "https://gitlab.com/"

RECURSIVE ReplaceFirst(_, _)
\* String.prototype.replace(tok, ""): drops the first occurrence of tok.
ReplaceFirst(s, tok) ==
  IF s = <<>> THEN <<>>
  ELSE IF Head(s) = tok THEN Tail(s)
  ELSE <<Head(s)>> \o ReplaceFirst(Tail(s), tok)

\* The characters of one token, as slash / non-slash runs.
Chars(tok) ==
  IF tok = HOST THEN <<"https:", "/", "/", "github.com", "/">>
  ELSE IF tok = GITLAB THEN <<"https:", "/", "/", "gitlab.com", "/">>
  ELSE <<tok>>

RECURSIVE Flatten(_)
Flatten(s) == IF s = <<>> THEN <<>> ELSE Chars(Head(s)) \o Flatten(Tail(s))

RECURSIVE SplitRuns(_, _)
\* split("/") over slash / non-slash runs; cur is the part being read.
SplitRuns(s, cur) ==
  IF s = <<>> THEN <<cur>>
  ELSE IF Head(s) = "/" THEN <<cur>> \o SplitRuns(Tail(s), <<>>)
  ELSE SplitRuns(Tail(s), Append(cur, Head(s)))

\* repo.url.replace("https://github.com/", "").split("/")
UrlParts(url) == SplitRuns(Flatten(ReplaceFirst(url, HOST)), <<>>)

\* The URL strings the projects of the model use.
WellFormed == <<HOST, "o", "/", "n">>
TooLong == <<HOST, "o", "/", "n", "/", "x">>
Urls ==
  { <<HOST, "s", "/", "n">>,
    <<HOST, "s", "/", "n", "/", "x">>,
    <<HOST, "s">>,
    <<HOST, "s", "/">>,
    <<"s", "/", "n">>,
    <<GITLAB, "s", "/", "n">> }

\* The owner/name pairs a query of the model can name.
Repos == { <<<<"o">>, <<"n">>>>, <<<<"s">>, <<"n">>>>, <<<<"s">>, <<>>>> }

\* --------------------------------------------------------- JSON documents
\* A file's text and a parsed value share one shape: t is "object", "null",
\* "number" (any JSON value that is neither an object nor null) or "garbage"
\* (a missing file or text that is not JSON); f lists an object's fields.
Doc(t, f) == [t |-> t, f |-> f]

HasKey(f, k) == \E x \in 1..Len(f) : f[x].k = k

\* obj[k] = v on an ordinary object: an existing key keeps its position, a
\* new key goes last.
SetProp(f, k, v) ==
  IF HasKey(f, k)
  THEN [x \in 1..Len(f) |-> IF f[x].k = k THEN Field(k, v) ELSE f[x]]
  ELSE Append(f, Field(k, v))

RECURSIVE ParseFields(_, _)
ParseFields(f, acc) ==
  IF f = <<>> THEN acc
  ELSE ParseFields(Tail(f), SetProp(acc, Head(f).k, Head(f).v))

\* JSON.parse(raw), line 97: throws on garbage, a repeated key keeps its
\* first position and its last value.
ParseThrows(text) == text.t = "garbage"
JSONparse(text) ==
  IF text.t = "object" THEN Doc("object", ParseFields(text.f, <<>>)) ELSE text

Defined(x) == x.v.t # "undefined"

\* Mutant of JSONstringify: only the fields the script knows are serialised.
KnownField(x) == x.k \in {"github_repo", "stars"} /\ x.v.t # "undefined"
JSONstringifyKnown(data) ==
  IF data.t = "object" THEN Doc("object", SelectSeq(data.f, KnownField)) ELSE data

\* JSON.stringify(data, null, 2) + "\n", line 125: a property whose value is
\* undefined is left out.
JSONstringify(data) ==
  IF data.t = "object" THEN Doc("object", SelectSeq(data.f, Defined)) ELSE data

\* data[k]: undefined for a missing property and for any property of a
\* number; on null the access throws (see NullData).
GetProp(data, k) ==
  IF data.t = "object" /\ HasKey(data.f, k)
  THEN data.f[CHOOSE x \in 1..Len(data.f) : data.f[x].k = k].v
  ELSE Undef

NullData(data) == data.t = "null"

\* ------------------------------------------------------- fetchStarCounts
\* Line 28: url.replace is a TypeError unless url is a string.
UrlThrows(repositories) ==
  \E j \in 1..Len(repositories) : repositories[j].url.t # "string"

\* Lines 27-31: the aliased lookup of the descriptor at position idx
\* (counted from 0), or NoQuery (null) when its URL does not split in two.
NoQuery == [idx |-> -1, owner |-> <<>>, name |-> <<>>]

QueryOf(repo, idx) ==
  LET parts == UrlParts(repo.url.s)
  IN  IF Len(parts) # 2 THEN NoQuery
      ELSE [idx |-> idx, owner |-> parts[1], name |-> parts[2]]

Truthy(q) == q # NoQuery

\* Lines 27-32: map, then filter(Boolean).
Queries(repositories) ==
  SelectSeq([j \in 1..Len(repositories) |-> QueryOf(repositories[j], j - 1)], Truthy)

\* a[j] of a JavaScript array, j counted from 1 here: undefined past the end.
At(a, j) == IF j \in 1..Len(a) THEN a[j] ELSE Undef

\* Lines 65-69: repoData?.stargazerCount ?? 0 for every input position.
ExtractCounts(repositories, data) ==
  [j \in 1..Len(repositories) |->
     IF (j - 1) \in DOMAIN data /\ data[j - 1].t = "number"
     THEN data[j - 1] ELSE Num(0)]

\* ------------------------------------------------------------------ state
VARIABLES
  disk,          \* projects/<slug>/project.json: slug -> text
  upstream,      \* the service: owner/name -> star count, or Null
  fragile,       \* slugs whose file may refuse a write
  pc,            \* position of the script
  run,           \* 1 for the first execution, 2 for the one after it
  i,             \* loop index of line 108
  projects,      \* line 92, with data mutated by line 124
  totalUpdated,  \* line 106
  query,         \* the composite query awaiting its response, or <<>>
  starCounts,    \* line 116
  caught,        \* what the catch of line 132 caught
  cause,         \* why the process exited with status 1
  batches,       \* history: the slugs of each batch, in processing order
  outcomes,      \* history: how fetchStarCounts ended for each batch
  fetched,       \* history: slug -> starCounts[j], batches whose fetch returned
  writes,        \* history: the successful writeFileSync calls of this run
  aborted,       \* history: slugs at or after a throwing write in their batch
  events,        \* history: queries, responses, batch ends and delays
  faults,        \* environment faults injected so far
  disk0,         \* history: disk when this run started
  prev           \* history: how the first execution went

vars ==
  << disk, upstream, fragile, pc, run, i, projects, totalUpdated, query,
     starCounts, caught, cause, batches, outcomes, fetched, writes,
     aborted, events, faults, disk0, prev >>

Min(a, b) == IF a < b THEN a ELSE b

Range(q) == {q[x] : x \in 1..Len(q)}

\* folders.sort(), line 93: the names of S in ascending order.  Folder
\* names are numbered in sort order, AllSlugs lists every name in order.
AllSlugs == [k \in 1..(MaxFillBatches * BATCH_SIZE + 1) |-> k]
SortedSeq(S) == LET present(k) == k \in S IN SelectSeq(AllSlugs, present)

\* Lines 92-102: one entry per folder whose project.json reads and parses.
LoadAll(folders, d) ==
  LET ok(s) == ~ParseThrows(d[s])
      good == SelectSeq(folders, ok)
  IN  [x \in 1..Len(good) |->
         [folder |-> good[x], path |-> good[x], data |-> JSONparse(d[good[x]])]]

\* Line 109: projects.slice(i, i + BATCH_SIZE).
Slice(p, idx) == SubSeq(p, idx + 1, Min(idx + BATCH_SIZE, Len(p)))

\* Line 109: the batch of the current iteration; its entries are the
\* objects projects holds.
batch == Slice(projects, i)

\* Line 111: Math.floor(i / BATCH_SIZE) + 1.
BatchNo == (i \div BATCH_SIZE) + 1

\* Line 113.
Repositories(b) ==
  [j \in 1..Len(b) |->
     [slug |-> b[j].folder, url |-> GetProp(b[j].data, "github_repo")]]

Slugs(b) == [j \in 1..Len(b) |-> b[j].folder]

\* result.data of a response that carries data: alias -> count or Null.
ResponseData(q) ==
  [a \in {q[x].idx : x \in 1..Len(q)} |->
     LET e == q[CHOOSE x \in 1..Len(q) : q[x].idx = a]
     IN  upstream[<<e.owner, e.name>>]]

NoData == [a \in {} |-> Null]

\* Mutant of Changed: a record without stars is never seen as changed.
ChangedIfStored(data, stars) ==
  GetProp(data, "stars") # Undef /\ GetProp(data, "stars") # stars

\* Line 123: data.stars !== stars.
Changed(data, stars) == GetProp(data, "stars") # stars

\* Mutant of Assign: the assignment is lost and the old record is written.
AssignLost(data, stars) == data

\* Line 124: data.stars = stars.
Assign(data, stars) == Doc(data.t, SetProp(data.f, "stars", stars))

\* Mutant of Counted: totalUpdated++ runs before writeFileSync.
CountedBeforeWrite(total, attempted, written) == total + attempted

\* Line 127: totalUpdated++ runs once per writeFileSync that returned;
\* attempted counts the calls, written the calls that returned.
Counted(total, attempted, written) == total + written

\* Mutant of MoreBatches: the comparison is turned around.
MoreBatchesWrongWay(idx, n) == idx + BATCH_SIZE > n

\* Line 138: i + BATCH_SIZE < projects.length.
MoreBatches(idx, n) == idx + BATCH_SIZE < n

\* ---------------------------------------------------------- initial states
NameField == Field("name", Str(<<"x">>))

ObjText(repo, stars, starsFirst) ==
  LET r == IF repo.t = "undefined" THEN <<>> ELSE <<Field("github_repo", repo)>>
      st == IF stars.t = "undefined" THEN <<>> ELSE <<Field("stars", stars)>>
  IN  Doc("object",
          IF starsFirst THEN st \o <<NameField>> \o r
          ELSE <<NameField>> \o r \o st)

\* A text that names stars twice.
DupText ==
  Doc("object",
      << Field("stars", Num(0)), Field("github_repo", Str(<<HOST, "s", "/", "n">>)),
         Field("stars", Num(MaxStars)) >>)

StarsValues == {Undef} \cup {Num(n) : n \in 0..MaxStars}
RepoValues == {Undef, Num(7)} \cup {Str(u) : u \in Urls}
Counts == {Null} \cup {Num(n) : n \in 0..MaxStars}

NoSpecial == Doc("absent", <<>>)

SpecialTexts ==
  {Doc("garbage", <<>>), Doc("null", <<>>), Doc("number", <<>>), DupText}
    \cup {ObjText(r, st, FALSE) : r \in RepoValues, st \in StarsValues}
    \cup {ObjText(Str(<<HOST, "s", "/", "n">>), st, TRUE) : st \in StarsValues \ {Undef}}

FillerTexts ==
  { ObjText(Str(WellFormed), Num(0), FALSE),
    ObjText(Str(TooLong), Num(MaxStars), TRUE) }

FillCounts == {0, BATCH_SIZE - 1} \cup {k * BATCH_SIZE : k \in 1..MaxFillBatches}

\* The text names a repository of owner "s".
NamesRepo(text) ==
  /\ text.t = "object"
  /\ LET url == GetProp(JSONparse(text), "github_repo")
     IN  url.t = "string" /\ Len(UrlParts(url.s)) = 2

NoRun == [outcomes |-> <<>>, threw |-> FALSE, wrote |-> FALSE]

Init ==
  \E f \in FillCounts, sp \in SpecialTexts \cup {NoSpecial}, atHead \in BOOLEAN,
     ft \in FillerTexts, uo \in {Null, Num(MaxStars)}, us \in Counts :
    LET n == f + (IF sp = NoSpecial THEN 0 ELSE 1)
        special == IF sp = NoSpecial THEN 0 ELSE IF atHead THEN 1 ELSE n
    IN  \* a repository no project names holds no count
        /\ (f = 0 \/ ~NamesRepo(ft)) => uo = Null
        /\ ~NamesRepo(sp) => us = Null
        /\ disk = [s \in 1..n |-> IF s = special THEN sp ELSE ft]
        /\ upstream = [r \in Repos |->
                         IF r = <<<<"o">>, <<"n">>>> THEN uo
                         ELSE IF r = <<<<"s">>, <<"n">>>> THEN us ELSE Null]
        /\ fragile = {special} \ {0}
        /\ disk0 = disk
        /\ pc = "boot"
        /\ run = 1
        /\ i = 0
        /\ projects = <<>>
        /\ totalUpdated = 0
        /\ query = <<>>
        /\ starCounts = <<>>
        /\ caught = "none"
        /\ cause = "none"
        /\ batches = <<>>
        /\ outcomes = <<>>
        /\ fetched = [s \in {} |-> Undef]
        /\ writes = <<>>
        /\ aborted = {}
        /\ events = <<>>
        /\ faults = 0
        /\ prev = NoRun

\* ----------------------------------------------------------------- actions
env == <<disk, upstream, fragile, disk0, run, prev>>
hist == <<batches, outcomes, fetched, writes, aborted, events>>

\* Lines 14-19: without GITHUB_TOKEN the process exits with status 1.
CheckToken ==
  /\ pc = "boot"
  /\ \E tok \in BOOLEAN :
       IF tok THEN pc' = "scan" /\ cause' = cause
       ELSE pc' = "exit1" /\ cause' = "token"
  /\ UNCHANGED <<env, hist, i, projects, totalUpdated, query, starCounts,
                 caught, faults>>

\* Lines 77-106: list the directories of projects/ (the domain of disk), or
\* exit with status 1; then read and parse every project.json in sorted
\* folder order.
ScanAndLoad ==
  /\ pc = "scan"
  /\ \E listed \in BOOLEAN :
       IF listed
       THEN /\ projects' = LoadAll(SortedSeq(DOMAIN disk), disk)
            /\ pc' = "loop"
            /\ cause' = cause
       ELSE /\ pc' = "exit1"
            /\ cause' = "root"
            /\ projects' = projects
  /\ i' = 0
  /\ totalUpdated' = 0
  /\ UNCHANGED <<env, batches, outcomes, fetched, writes, aborted, events,
                 query, starCounts, caught, faults>>

\* Lines 108-116 and 27-51: take the next batch, build its repositories and
\* its query.  A null record throws outside the try and main() rejects
\* (lines 146-149); a url that is no string throws inside it; an empty
\* query returns [] at once; otherwise the query is sent.
BeginBatch ==
  /\ pc = "loop"
  /\ i < Len(projects)
  /\ \E b \in {batch} :
       /\ batches' = Append(batches, Slugs(b))
       /\ IF \E p \in Range(b) : NullData(p.data)
          THEN /\ pc' = "exit1"
               /\ cause' = "crash"
               /\ UNCHANGED <<query, starCounts, caught, outcomes, events>>
          ELSE /\ cause' = cause
               /\ IF UrlThrows(Repositories(b))
                  THEN /\ pc' = "caught"
                       /\ caught' = "url"
                       /\ outcomes' = Append(outcomes, "url")
                       /\ UNCHANGED <<query, starCounts, events>>
                  ELSE \E q \in {Queries(Repositories(b))} :
                       IF q = <<>>
                       THEN /\ pc' = "update"
                            /\ starCounts' = <<>>
                            /\ outcomes' = Append(outcomes, "empty")
                            /\ UNCHANGED <<query, caught, events>>
                       ELSE /\ pc' = "fetch"
                            /\ query' = q
                            /\ events' = Append(events, <<"query", BatchNo>>)
                            /\ UNCHANGED <<starCounts, caught, outcomes>>
  /\ UNCHANGED <<env, fetched, writes, aborted, i, projects,
                 totalUpdated, faults>>

\* Lines 44-58: the ways fetchStarCounts throws once the query is sent: the
\* fetch rejects, the status is no success, the body is no JSON.
Thrown == {"network", "status", "badjson"}

\* How the call ended for the batch: it threw, or it returned counts from a
\* response with or without a data map.
Outcome(o) == IF o \in Thrown THEN "failed" ELSE o

\* Lines 44-72: the response arrives.  A transport error, a non-success
\* status or an unparsable body throws; a response with or without a data
\* map yields one count per descriptor.  The second execution gets for the
\* batch a response that ends the call as the first one's did.
FetchReturn ==
  /\ pc = "fetch"
  /\ \E o \in {"ok", "nodata"} \cup Thrown :
       /\ IF run = 1
          THEN /\ o = "ok" \/ faults < MaxFaults
               /\ faults' = IF o = "ok" THEN faults ELSE faults + 1
          ELSE /\ Outcome(o) = prev.outcomes[BatchNo]
               /\ faults' = faults
       /\ outcomes' = Append(outcomes, Outcome(o))
       /\ IF o \in {"ok", "nodata"}
          THEN /\ starCounts' =
                    ExtractCounts(Repositories(batch),
                                  IF o = "ok" THEN ResponseData(query) ELSE NoData)
               /\ pc' = "update"
               /\ caught' = caught
          ELSE /\ pc' = "caught"
               /\ caught' = o
               /\ starCounts' = starCounts
  /\ query' = <<>>
  /\ events' = Append(events, <<"response", BatchNo>>)
  /\ UNCHANGED <<env, batches, fetched, writes, aborted, i, projects,
                 totalUpdated, cause>>

\* Lines 119-131 for the batch b = p.slice(idx, ...) with counts c, run on
\* disk d: the loop compares and writes the descriptors in order.  stop is
\* the position whose writeFileSync throws (past the end: none does); the
\* throw leaves the loop for the catch of line 132.  The records of b are
\* the records of p, so line 124 changes both.
UpdateLoop(p, idx, b, c, d, stop) ==
  LET need == {j \in 1..Len(b) : Changed(b[j].data, At(c, j))}
      done == {j \in need : j < stop}
      tried == {j \in need : j <= stop}
      new == [j \in 1..Len(b) |->
                IF j \in tried THEN Assign(b[j].data, At(c, j)) ELSE b[j].data]
      isDone(j) == j \in done
      order == SelectSeq([j \in 1..Len(b) |-> j], isDone)
      at == [s \in {b[j].path : j \in done} |->
               CHOOSE j \in 1..Len(b) : b[j].path = s]
  IN  [ projects |-> [x \in 1..Len(p) |->
                        IF x > idx /\ x <= idx + Len(b)
                        THEN [p[x] EXCEPT !.data = new[x - idx]] ELSE p[x]],
        disk |-> [s \in DOMAIN d |->
                    IF s \in DOMAIN at THEN JSONstringify(new[at[s]]) ELSE d[s]],
        writes |-> [x \in 1..Len(order) |->
                      [path |-> b[order[x]].path,
                       text |-> JSONstringify(new[order[x]])]],
        attempted |-> Cardinality(tried),
        written |-> Cardinality(done) ]

\* The positions of the batch where a write is attempted on a fragile file.
Risky(b, c) ==
  {j \in 1..Len(b) : Changed(b[j].data, At(c, j)) /\ b[j].path \in fragile}

UpdateBatch ==
  /\ pc = "update"
  /\ \E b \in {batch} :
     \E stop \in {Len(b) + 1}
                 \cup (IF faults < MaxFaults THEN Risky(b, starCounts) ELSE {}) :
       /\ \E r \in {UpdateLoop(projects, i, b, starCounts, disk, stop)} :
            /\ projects' = r.projects
            /\ disk' = r.disk
            /\ writes' = writes \o r.writes
            /\ totalUpdated' = Counted(totalUpdated, r.attempted, r.written)
       /\ fetched' =
            [s \in DOMAIN fetched \cup {b[j].folder : j \in 1..Len(b)} |->
               IF s \in DOMAIN fetched THEN fetched[s]
               ELSE At(starCounts, CHOOSE j \in 1..Len(b) : b[j].folder = s)]
       /\ IF stop <= Len(b)
          THEN /\ pc' = "caught"
               /\ caught' = "write"
               /\ faults' = faults + 1
               /\ aborted' = aborted \cup {b[j].folder : j \in stop..Len(b)}
               /\ events' = events
          ELSE /\ pc' = "rate"
               /\ events' = Append(events, <<"settled", BatchNo>>)
               /\ UNCHANGED <<caught, faults, aborted>>
  /\ UNCHANGED <<upstream, fragile, disk0, run, prev, batches, outcomes,
                 i, query, starCounts, cause>>

\* Lines 132-135: the batch's error is logged and dropped, and the loop
\* goes on.
Catch ==
  /\ pc = "caught"
  /\ pc' = "rate"
  /\ caught' = "none"
  /\ events' = Append(events, <<"settled", BatchNo>>)
  /\ UNCHANGED <<env, batches, outcomes, fetched, writes, aborted, i,
                 projects, totalUpdated, query, starCounts, cause, faults>>

\* Lines 137-140 and the i += BATCH_SIZE of line 108: sleep if another batch
\* follows, else step the loop.
RateLimit ==
  /\ pc = "rate"
  /\ IF MoreBatches(i, Len(projects))
     THEN /\ pc' = "sleep"
          /\ events' = Append(events, <<"sleep", BatchNo>>)
          /\ i' = i
     ELSE /\ pc' = "loop"
          /\ i' = i + BATCH_SIZE
          /\ events' = events
  /\ UNCHANGED <<env, batches, outcomes, fetched, writes, aborted,
                 projects, totalUpdated, query, starCounts, caught, cause, faults>>

\* Line 139: the timer fires after the delay.
Wake ==
  /\ pc = "sleep"
  /\ pc' = "loop"
  /\ i' = i + BATCH_SIZE
  /\ events' = Append(events, <<"woke", BatchNo>>)
  /\ UNCHANGED <<env, batches, outcomes, fetched, writes, aborted,
                 projects, totalUpdated, query, starCounts, caught, cause, faults>>

\* Lines 108 and 143: the loop is over, the summary is printed and the
\* process ends with status 0.
Finish ==
  /\ pc = "loop"
  /\ i >= Len(projects)
  /\ pc' = "done"
  /\ UNCHANGED <<env, hist, i, projects, totalUpdated, query, starCounts,
                 caught, cause, faults>>

\* The script is started again on the files a completed first execution left.
Rerun ==
  /\ pc = "done"
  /\ run = 1
  /\ run' = 2
  /\ prev' = [outcomes |-> outcomes, threw |-> aborted # {}, wrote |-> writes # <<>>]
  /\ disk0' = disk
  /\ pc' = "boot"
  /\ i' = 0
  /\ projects' = <<>>
  /\ totalUpdated' = 0
  /\ query' = <<>>
  /\ starCounts' = <<>>
  /\ caught' = "none"
  /\ cause' = "none"
  /\ batches' = <<>>
  /\ outcomes' = <<>>
  /\ fetched' = [s \in {} |-> Undef]
  /\ writes' = <<>>
  /\ aborted' = {}
  /\ events' = <<>>
  /\ UNCHANGED <<disk, upstream, fragile, faults>>

Step ==
  \/ CheckToken
  \/ ScanAndLoad
  \/ BeginBatch
  \/ FetchReturn
  \/ UpdateBatch
  \/ Catch
  \/ RateLimit
  \/ Wake
  \/ Finish

Next == Step

Spec == Init /\ [][Next]_vars

NextTwice == Step \/ Rerun

SpecTwice == Init /\ [][NextTwice]_vars

\* ------------------------------------------------------------ properties
\* The record of folder s as this run loaded it (the file is not written
\* before it is loaded), and the stars value it held.
LoadedData(s) == JSONparse(disk0[s])
StoredStars(s) == GetProp(LoadedData(s), "stars")

\* The slugs this run loaded, in order.
LoadedSlugs ==
  LET parses(s) == ~ParseThrows(disk0[s])
  IN  SelectSeq(SortedSeq(DOMAIN disk0), parses)

\* A batch has just ended or the run has: the files, the record of writes
\* and the fetched counts change at no other step.
BatchEnded == pc \in {"caught", "rate", "done"}

\* The paths written in this run.
WrittenPaths == {writes[x].path : x \in 1..Len(writes)}

\* ceil(n / BATCH_SIZE)
CeilBatches(n) == (n + BATCH_SIZE - 1) \div BATCH_SIZE

\* The batches whose query was sent and failed.
FailedBatches ==
  {k \in 1..Len(outcomes) : outcomes[k] = "failed"}

\* The count the service holds for the repository a record names, 0 when the
\* github_repo value has no owner/name shape or the service has no count.
Resolved(data, o) ==
  LET url == GetProp(data, "github_repo")
      parts == UrlParts(url.s)
  IN  IF /\ url.t = "string"
         /\ Len(parts) = 2
         /\ o = "ok"
         /\ upstream[<<parts[1], parts[2]>>].t = "number"
      THEN upstream[<<parts[1], parts[2]>>]
      ELSE Num(0)

\* github_repo is absent, no string, or does not split into two non-empty
\* components.
Malformed(data) ==
  LET url == GetProp(data, "github_repo")
  IN  \/ url.t # "string"
      \/ Len(UrlParts(url.s)) # 2
      \/ \E x \in 1..Len(UrlParts(url.s)) : UrlParts(url.s)[x] = <<>>

\* C1: whenever fetchStarCounts returns, the result holds one count per
\* descriptor of the batch, in input order: the service's count for the
\* descriptor, and 0 for an excluded URL or missing data.
C1_OneCountPerDescriptor ==
  pc = "update" =>
    /\ Len(starCounts) = Len(batch)
    /\ \A j \in 1..Len(batch) :
         starCounts[j] = Resolved(batch[j].data, outcomes[Len(outcomes)])

\* C2: a descriptor with a malformed github_repo never fails its batch,
\* resolves to the count 0 and is rewritten exactly when 0 differs from its
\* stored stars.
C2_MalformedIsPerItem ==
  /\ pc = "caught" => caught # "url"
  /\ pc = "update" =>
       \A j \in 1..Len(batch) :
         Malformed(batch[j].data) => At(starCounts, j) = Num(0)
  /\ \A s \in DOMAIN fetched :
       Malformed(LoadedData(s)) =>
         /\ fetched[s] = Num(0)
         /\ s \notin aborted => (s \in WrittenPaths <=> StoredStars(s) # Num(0))

\* C3 as claimed: at the end of every batch and of the run, a descriptor
\* whose batch query completed has been written if and only if its fetched
\* count differs from the stars value it was loaded with.
C3_WrittenIffChanged ==
  BatchEnded =>
    LET wp == WrittenPaths
    IN  \A s \in DOMAIN fetched : s \in wp <=> fetched[s] # StoredStars(s)

\* C3, amended: at the end of every batch and of the run, a descriptor
\* whose batch query completed has been written if and only if its fetched
\* count differs from the stars value it was loaded with and no
\* writeFileSync threw in its batch at or before its position.
C3_WrittenIffChangedAndReached ==
  BatchEnded =>
    LET wp == WrittenPaths
    IN  \A s \in DOMAIN fetched :
          s \in wp <=> (fetched[s] # StoredStars(s) /\ s \notin aborted)

\* One descriptor without stored stars was written and another, whose
\* fetched count equals its stored one, was left alone.
C3_Witness ==
  /\ pc = "done"
  /\ \E s \in DOMAIN fetched :
       s \in WrittenPaths /\ StoredStars(s) = Undef /\ fetched[s] = Num(0)
  /\ \E s \in DOMAIN fetched : s \notin WrittenPaths /\ fetched[s] = StoredStars(s)

\* C4: the process exits with status 1 only for a missing credential or an
\* unlistable projects directory.
C4_ExitOneOnlyFatal == pc = "exit1" => cause \in {"token", "root"}

\* C5: after the query of a batch failed, none of its descriptors is
\* written, the run does not abort, and at the summary every batch has been
\* taken.
C5_FailureIsolated ==
  FailedBatches # {} =>
    /\ \A k \in FailedBatches :
         \A x \in 1..Len(batches[k]) : batches[k][x] \notin WrittenPaths
    /\ pc # "exit1"
    /\ pc = "done" => Len(outcomes) = CeilBatches(Len(LoadedSlugs))

\* C8: when the run has ended after loading N descriptors, the loop has
\* taken ceil(N / BATCH_SIZE) batches of at most BATCH_SIZE descriptors
\* whose concatenation is the loaded sequence.
RECURSIVE Concat(_)
Concat(ss) == IF ss = <<>> THEN <<>> ELSE Head(ss) \o Concat(Tail(ss))

C8_Partition ==
  (pc \in {"done", "exit1"} /\ cause \notin {"token", "root"}) =>
    /\ Len(batches) = CeilBatches(Len(LoadedSlugs))
    /\ \A k \in 1..Len(batches) : Len(batches[k]) <= BATCH_SIZE
    /\ Concat(batches) = LoadedSlugs

\* C8 on the runs that reach the summary: the same partition.
C8_PartitionWhenDone ==
  pc = "done" =>
    /\ Len(batches) = CeilBatches(Len(LoadedSlugs))
    /\ \A k \in 1..Len(batches) : Len(batches[k]) <= BATCH_SIZE
    /\ Concat(batches) = LoadedSlugs

NotStars(x) == x.k # "stars"
OtherFields(data) == SelectSeq(data.f, NotStars)

\* What every write of the run did: the text's stars is the fetched value,
\* the other fields are those loaded, in the same order; no path is written
\* twice (the written paths are as many as the writes) and a file never
\* written is as the run found it.
WritesAreExact ==
  /\ \A x \in 1..Len(writes) :
       /\ writes[x].path \in DOMAIN fetched
       /\ GetProp(JSONparse(writes[x].text), "stars") = fetched[writes[x].path]
       /\ OtherFields(JSONparse(writes[x].text)) = OtherFields(LoadedData(writes[x].path))
       /\ disk[writes[x].path] = writes[x].text
  /\ Cardinality(WrittenPaths) = Len(writes)
  /\ LET wp == WrittenPaths
     IN  \A s \in DOMAIN disk : s \notin wp => disk[s] = disk0[s]

\* C7 as claimed: at the end of every batch and of the run, every
\* descriptor whose fetched count differs from its stored value has had
\* exactly one write, to its own path, of its record with only stars
\* changed, and no other file was touched.
C7_ExactlyOneWrite ==
  BatchEnded =>
    /\ WritesAreExact
    /\ LET wp == WrittenPaths
       IN  \A s \in DOMAIN fetched : fetched[s] # StoredStars(s) => s \in wp

\* C7, amended: the same for every descriptor whose fetched count differs
\* from its stored value and that is not at or after a throwing
\* writeFileSync in its batch; such a descriptor gets no write.
C7_ExactlyOneWriteIfReached ==
  BatchEnded =>
    /\ WritesAreExact
    /\ LET wp == WrittenPaths
       IN  \A s \in DOMAIN fetched :
             fetched[s] # StoredStars(s) => (s \in wp <=> s \notin aborted)

\* A record that lists stars first was rewritten with a new count, and a
\* record without stars got one.
C7_Witness ==
  /\ \E x \in 1..Len(writes) :
       /\ LoadedData(writes[x].path).f[1].k = "stars"
       /\ Len(OtherFields(LoadedData(writes[x].path))) = 2
       /\ fetched[writes[x].path].t = "number"
  /\ \E x \in 1..Len(writes) : StoredStars(writes[x].path) = Undef

\* The positions before p at which event e was recorded.
Before(e, p) == {q \in 1..(p - 1) : events[q] = e}

\* C9: a query is sent only when every earlier query has been answered and,
\* for every earlier batch, the batch has ended, its delay has then been
\* started and has then elapsed; a delay is started only when another batch
\* follows; at the summary every batch but the last has had its delay.
C9_OneQueryAtATime ==
  /\ \A p \in 1..Len(events) :
       events[p][1] = "query" =>
         /\ \A q \in 1..(p - 1) :
              events[q][1] = "query" =>
                \E r \in (q + 1)..(p - 1) : events[r] = <<"response", events[q][2]>>
         /\ \A b \in 1..(events[p][2] - 1) :
              \E q \in Before(<<"settled", b>>, p) :
                \E r \in Before(<<"sleep", b>>, p) :
                  \E w \in Before(<<"woke", b>>, p) : q < r /\ r < w
  /\ \A p \in 1..Len(events) :
       events[p][1] = "sleep" => events[p][2] < CeilBatches(Len(LoadedSlugs))
  /\ pc = "done" =>
       \A b \in 1..(CeilBatches(Len(LoadedSlugs)) - 1) :
         \E p \in 1..Len(events) : events[p] = <<"sleep", b>>

\* The first batch's query failed and the second batch's query was sent.
C9_Witness ==
  /\ pc = "done"
  /\ 1 \in FailedBatches
  /\ \E p \in 1..Len(events) : events[p] = <<"query", 2>>

\* C10: totalUpdated is the number of writeFileSync calls of this run that
\* returned, in every state and so at the summary.
C10_TotalIsWrites ==
  /\ totalUpdated = Len(writes)
  /\ pc = "done" => totalUpdated = Cardinality(WrittenPaths)

\* A run reached the summary after a write threw part-way through a batch,
\* with other writes counted.
C10_Witness ==
  /\ pc = "done"
  /\ aborted # {}
  /\ totalUpdated > 0

====
